---- MODULE Spec2Model ----
(***************************************************************************)
(* Model of src/loader.ts: the config locator (findConfigFile) and the     *)
(* process-wide environment cache (loadDevEnv, getDevEnv,                  *)
(* clearDevEnvCache).                                                      *)
(*                                                                         *)
(* Directories form a chain 1 (the root) .. Depth; dirname of the root is  *)
(* the root.  A path is the pair <<directory, filename>>.  The filesystem  *)
(* is the set of config-file paths that exist.  loadDevEnv is an async     *)
(* function with one suspension point, the await of the dynamic import:    *)
(* everything before it (cache check, directory walk with existsSync) is   *)
(* one step, everything after it (validation, createDevEnvironment, store, *)
(* return) is another.  ev is a history variable describing the step that  *)
(* led to the current state; lastLoaded is a history variable holding what *)
(* the latest successful loadDevEnv returned since the last clear, and     *)
(* cachedFrom one holding the path the cached environment was imported     *)
(* from.                                                                   *)
(***************************************************************************)
EXTENDS Integers, Sequences, FiniteSets, Bags, TLC

\* ------------------------------------------------------------------ bounds
\* Length of the directory chain (root = 1, deepest directory = Depth).
Depth == 3
\* Most config files that exist at once in the cache specification.
MaxFiles == 2
\* How many of the candidate names (the first MaxNames of CONFIG_FILES) the
\* environment creates files for in the cache specification.
MaxNames == 1
\* Most loadDevEnv calls suspended in their import at once.
MaxInFlight == 2
\* Most environments createDevEnvironment builds in one behaviour.
MaxEnvs == 2

VARIABLES fs, cachedEnv, cachedFrom, inflight, nextId, lastLoaded, ev

vars == <<fs, cachedEnv, cachedFrom, inflight, nextId, lastLoaded, ev>>

\* ------------------------------------------------------- paths and files
CONFIG_FILES ==
    <<"dev.config.ts", "dev.config.js", "dev-tools.config.ts", "dev-tools.config.js">>

Dirs == 1..Depth

\* node:path dirname on the chain: the root is its own parent.
dirname(dir) == IF dir = 1 THEN 1 ELSE dir - 1

\* node:path join of a directory and a filename.
join(dir, file) == <<dir, file>>

\* The null a function returns instead of a path.
NoPath == <<0, "">>

AllPaths == {join(d, CONFIG_FILES[i]) : d \in Dirs, i \in 1..Len(CONFIG_FILES)}

\* The paths the environment creates and deletes in the cache specification.
TouchedPaths == {join(d, CONFIG_FILES[i]) : d \in Dirs, i \in 1..MaxNames}

\* node:fs existsSync: synchronous, reads the filesystem as it is now.
existsSync(path) == path \in fs

\* Lines 26-31: the candidates of one directory, in list order, from index i;
\* the first that exists is returned.  probes collects the paths tested.
RECURSIVE scanCandidates(_, _, _)
scanCandidates(currentDir, i, probes) ==
    IF i > Len(CONFIG_FILES)
    THEN [path |-> NoPath, probes |-> probes]
    ELSE LET configPath == join(currentDir, CONFIG_FILES[i])
         IN  IF existsSync(configPath)
             THEN [path |-> configPath, probes |-> Append(probes, configPath)]
             ELSE scanCandidates(currentDir, i + 1, Append(probes, configPath))

\* Lines 24-42: one iteration of while(true) per directory.
RECURSIVE walkUp(_, _)
walkUp(currentDir, probes) ==
    LET here == scanCandidates(currentDir, 1, probes)
        parentDir == dirname(currentDir)
    IN  IF here.path # NoPath THEN here
        ELSE IF parentDir = currentDir THEN [path |-> NoPath, probes |-> here.probes]
        ELSE walkUp(parentDir, here.probes)

\* A wrong locator: candidate-major, it looks for the first candidate on the
\* whole chain before it tries the second.
RECURSIVE chainHas(_, _)
chainHas(dir, file) ==
    IF existsSync(join(dir, file)) THEN join(dir, file)
    ELSE IF dirname(dir) = dir THEN NoPath
    ELSE chainHas(dirname(dir), file)

RECURSIVE candidateMajor(_, _)
candidateMajor(startDir, i) ==
    IF i > Len(CONFIG_FILES) THEN NoPath
    ELSE IF chainHas(startDir, CONFIG_FILES[i]) # NoPath
         THEN chainHas(startDir, CONFIG_FILES[i])
         ELSE candidateMajor(startDir, i + 1)

findConfigFile_candidateMajor(startDir) ==
    [path |-> candidateMajor(startDir, 1), probes |-> walkUp(startDir, <<>>).probes]

\* A wrong locator: in the matching directory it returns the last candidate
\* that exists instead of the first.
findConfigFile_lastCandidate(startDir) ==
    LET r == walkUp(startDir, <<>>)
        there == {i \in 1..Len(CONFIG_FILES) : existsSync(join(r.path[1], CONFIG_FILES[i]))}
    IN  IF r.path = NoPath THEN r
        ELSE [r EXCEPT !.path =
                 join(r.path[1], CONFIG_FILES[CHOOSE i \in there : \A j \in there : j <= i])]

\* A wrong locator: it tests every candidate of the matching directory, also
\* those after the first that exists.
findConfigFile_probesAll(startDir) ==
    LET r == walkUp(startDir, <<>>)
        i == CHOOSE j \in 1..Len(CONFIG_FILES) : r.path = join(r.path[1], CONFIG_FILES[j])
    IN  IF r.path = NoPath THEN r
        ELSE [r EXCEPT !.probes = r.probes \o
                 [k \in 1..(Len(CONFIG_FILES) - i) |-> join(r.path[1], CONFIG_FILES[i + k])]]

\* A wrong locator: it gives up after the starting directory's parent.
findConfigFile_stopsEarly(startDir) ==
    LET here == scanCandidates(startDir, 1, <<>>)
        above == scanCandidates(dirname(startDir), 1, here.probes)
    IN  IF here.path # NoPath \/ dirname(startDir) = startDir THEN here ELSE above

\* Lines 21-43.  The result is the returned path (NoPath for null) and, as
\* an observation, the sequence of paths handed to existsSync.
findConfigFile(startDir) == walkUp(startDir, <<>>)

\* ------------------------------------------------- values, configs, envs
\* JavaScript values a config field can hold.
Undefined == [t |-> "undefined", s |-> "", keys |-> {}]
Str(s) == [t |-> "string", s |-> s, keys |-> {}]
Obj(keys) == [t |-> "object", s |-> "", keys |-> keys]

\* JavaScript truthiness: undefined and the empty string are falsy, every
\* object (the empty one included) is truthy.
Truthy(v) ==
    CASE v.t = "undefined" -> FALSE
      [] v.t = "string" -> v.s # ""
      [] v.t = "object" -> TRUE

\* mod.default: undefined (no default export) or an object with the two fields.
NoDefault == [t |-> "undefined", projectPrefix |-> Undefined, services |-> Undefined]

PrefixValues == {Undefined, Str(""), Str("app")}
ServicesValues == {Undefined, Obj({}), Obj({"postgres"})}

Configs ==
    {NoDefault} \cup
    {[t |-> "object", projectPrefix |-> p, services |-> s] :
        p \in PrefixValues, s \in ServicesValues}

\* config?.projectPrefix and config?.services (optional chaining).
optProjectPrefix(config) == IF config.t = "undefined" THEN Undefined ELSE config.projectPrefix
optServices(config) == IF config.t = "undefined" THEN Undefined ELSE config.services

\* A wrong validation: it forgets the services field.
ValidConfig_prefixOnly(config) == Truthy(optProjectPrefix(config))

\* A wrong validation: it demands a non-empty services mapping.
ValidConfig_nonEmptyServices(config) ==
    /\ Truthy(optProjectPrefix(config))
    /\ Truthy(optServices(config))
    /\ optServices(config).keys # {}

\* Line 82, negated: the config passes when the throw is not taken.
ValidConfig(config) ==
    ~ (~ Truthy(optProjectPrefix(config)) \/ ~ Truthy(optServices(config)))

\* The null of the cache slot.
NullEnv == [id |-> 0, config |-> NoDefault]

\* The external factory: a new object (a fresh identity) built from the config.
createDevEnvironment(config) == [id |-> nextId, config |-> config]

NoError == [kind |-> "none", path |-> NoPath]

\* options: cwd is a directory or 0 (not given), reload is a flag (not given = FALSE).
Options == [cwd : Dirs \cup {0}, reload : BOOLEAN]

\* process.cwd()
ProcessCwd == Depth

\* Line 75: options?.cwd ?? process.cwd()
resolveCwd(options) == IF options.cwd = 0 THEN ProcessCwd ELSE options.cwd

\* --------------------------------------------------------------- history
NoEvent ==
    [op |-> "init", cwd |-> 0, reload |-> FALSE, walked |-> FALSE, probes |-> <<>>, path |-> NoPath,
     imported |-> FALSE, resolved |-> FALSE, config |-> NoDefault,
     validated |-> FALSE, created |-> FALSE,
     outcome |-> "none", value |-> NullEnv, error |-> NoError,
     before |-> NullEnv, prevReturned |-> FALSE, prevValue |-> NullEnv]

LoadOps == {"loadDevEnv", "loadDevEnv.resume"}

\* The record of a step of operation op, with the slot as it was before the step.
Event(op) == [NoEvent EXCEPT !.op = op, !.before = cachedEnv]

\* The record of a loadDevEnv call: its starting directory (options.cwd, or
\* process.cwd() when none is given), its reload flag, and whether the step
\* before the call was a loadDevEnv call returning a value, and that value.
CallEvent(options) ==
    LET ret == ev.op \in LoadOps /\ ev.outcome = "returned"
    IN  [Event("loadDevEnv") EXCEPT
            !.cwd = resolveCwd(options),
            !.reload = options.reload,
            !.prevReturned = ret,
            !.prevValue = IF ret THEN ev.value ELSE NullEnv]

\* The record of a loadDevEnv call that got past the cache check: line 76
\* walked from its starting directory.
WalkEvent(options, found) ==
    [CallEvent(options) EXCEPT
        !.walked = TRUE,
        !.probes = found.probes, !.path = found.path]

\* ------------------------------------------------------------------ init
\* Line 48: the slot starts null; nothing is in flight.
Init ==
    /\ fs = {}
    /\ cachedEnv = NullEnv
    /\ cachedFrom = NoPath
    /\ inflight = EmptyBag
    /\ nextId = 1
    /\ lastLoaded = NullEnv
    /\ ev = NoEvent

\* ------------------------------------------------------------ filesystem
\* The environment creates or deletes a config file.
FsCreate(path) ==
    /\ path \notin fs
    /\ Cardinality(fs) < MaxFiles
    /\ fs' = fs \cup {path}
    /\ ev' = Event("fs")
    /\ UNCHANGED <<cachedEnv, cachedFrom, inflight, nextId, lastLoaded>>

FsDelete(path) ==
    /\ path \in fs
    /\ fs' = fs \ {path}
    /\ ev' = Event("fs")
    /\ UNCHANGED <<cachedEnv, cachedFrom, inflight, nextId, lastLoaded>>

\* ------------------------------------------------------------ loadDevEnv
\* A wrong cache check: it ignores the reload flag.
CacheHit_ignoresReload(options) == cachedEnv # NullEnv

\* A wrong cache check: it never uses the cache.
CacheHit_never(options) == FALSE

\* A wrong cache check: the slot is keyed by the config path of the call.
CacheHit_keyedByPath(options) ==
    /\ cachedEnv # NullEnv
    /\ ~ options.reload
    /\ findConfigFile(resolveCwd(options)).path = cachedFrom

\* Line 71: cachedEnv && !options?.reload
CacheHit(options) == cachedEnv # NullEnv /\ ~ options.reload

\* Lines 71-73: the cached environment is returned at once.
LoadCached(options) ==
    /\ CacheHit(options)
    /\ ev' = [CallEvent(options) EXCEPT !.outcome = "returned", !.value = cachedEnv]
    /\ lastLoaded' = cachedEnv
    /\ UNCHANGED <<fs, cachedEnv, cachedFrom, inflight, nextId>>

\* A wrong not-found path: it clears the slot before throwing.
LoadNotFound_clears(options) ==
    /\ ~ CacheHit(options)
    /\ LET found == findConfigFile(resolveCwd(options))
       IN  /\ found.path = NoPath
           /\ ev' = [WalkEvent(options, found) EXCEPT
                        !.outcome = "threw",
                        !.error = [kind |-> "NoConfigFound", path |-> NoPath]]
    /\ cachedEnv' = NullEnv
    /\ cachedFrom' = NoPath
    /\ lastLoaded' = NullEnv
    /\ UNCHANGED <<fs, inflight, nextId>>

\* Lines 75-78, 92-94: the walk finds nothing and the call throws.
LoadNotFound(options) ==
    /\ ~ CacheHit(options)
    /\ LET found == findConfigFile(resolveCwd(options))
       IN  /\ found.path = NoPath
           /\ ev' = [WalkEvent(options, found) EXCEPT
                        !.outcome = "threw",
                        !.error = [kind |-> "NoConfigFound", path |-> NoPath]]
    /\ UNCHANGED <<fs, cachedEnv, cachedFrom, inflight, nextId, lastLoaded>>

\* A wrong walk: the existence checks are awaited, so the call suspends after
\* the candidates of its starting directory, before the walk has a result.
LoadImport_suspendsInWalk(options) ==
    /\ ~ CacheHit(options)
    /\ BagCardinality(inflight) < MaxInFlight
    /\ LET first == scanCandidates(resolveCwd(options), 1, <<>>)
       IN  /\ inflight' = inflight (+) SetToBag({[reload |-> options.reload,
                                                  configPath |-> NoPath]})
           /\ ev' = [WalkEvent(options, [path |-> NoPath, probes |-> first.probes])
                        EXCEPT !.outcome = "suspended"]
    /\ UNCHANGED <<fs, cachedEnv, cachedFrom, nextId, lastLoaded>>

\* A wrong import step: a call that finds a file another suspended call is
\* already importing waits for that call instead of importing it again.
LoadImport_shared(options) ==
    /\ ~ CacheHit(options)
    /\ BagCardinality(inflight) < MaxInFlight
    /\ LET found == findConfigFile(resolveCwd(options))
           shared == \E call \in BagToSet(inflight) : call.configPath = found.path
       IN  /\ found.path # NoPath
           /\ inflight' = IF shared THEN inflight
                          ELSE inflight (+) SetToBag({[reload |-> options.reload,
                                                       configPath |-> found.path]})
           /\ ev' = [WalkEvent(options, found) EXCEPT
                        !.imported = ~ shared, !.outcome = "suspended"]
    /\ UNCHANGED <<fs, cachedEnv, cachedFrom, nextId, lastLoaded>>

\* Lines 75-79: the walk finds a file; the call starts the import and suspends.
\* What the suspended call keeps is its reload flag and its configPath.
LoadImport(options) ==
    /\ ~ CacheHit(options)
    /\ BagCardinality(inflight) < MaxInFlight
    /\ LET found == findConfigFile(resolveCwd(options))
       IN  /\ found.path # NoPath
           /\ inflight' = inflight (+) SetToBag({[reload |-> options.reload,
                                                  configPath |-> found.path]})
           /\ ev' = [WalkEvent(options, found) EXCEPT
                        !.imported = TRUE, !.outcome = "suspended"]
    /\ UNCHANGED <<fs, cachedEnv, cachedFrom, nextId, lastLoaded>>

\* Lines 63-95 up to the await.
loadDevEnv(options) ==
    \/ LoadCached(options)
    \/ LoadNotFound(options)
    \/ LoadImport(options)

\* Line 79: the import rejects because the file is gone; the await rethrows.
ImportRejected(call) ==
    /\ BagIn(call, inflight)
    /\ ~ existsSync(call.configPath)
    /\ inflight' = inflight (-) SetToBag({call})
    /\ ev' = [Event("loadDevEnv.resume") EXCEPT
                 !.reload = call.reload, !.path = call.configPath,
                 !.outcome = "threw",
                 !.error = [kind |-> "ImportFailed", path |-> call.configPath]]
    /\ UNCHANGED <<fs, cachedEnv, cachedFrom, nextId, lastLoaded>>

\* A wrong invalid-config path: it clears the slot before throwing.
LoadInvalid_clears(call, config) ==
    /\ BagIn(call, inflight)
    /\ existsSync(call.configPath)
    /\ ~ ValidConfig(config)
    /\ inflight' = inflight (-) SetToBag({call})
    /\ ev' = [Event("loadDevEnv.resume") EXCEPT
                 !.reload = call.reload, !.path = call.configPath,
                 !.resolved = TRUE, !.config = config, !.validated = TRUE,
                 !.outcome = "threw",
                 !.error = [kind |-> "InvalidConfig", path |-> call.configPath]]
    /\ cachedEnv' = NullEnv
    /\ cachedFrom' = NoPath
    /\ lastLoaded' = NullEnv
    /\ UNCHANGED <<fs, nextId>>

\* Lines 79-86: the import resolves with a module whose default export fails
\* the check; the call throws the invalid-config error naming configPath.
LoadInvalid(call, config) ==
    /\ BagIn(call, inflight)
    /\ existsSync(call.configPath)
    /\ ~ ValidConfig(config)
    /\ inflight' = inflight (-) SetToBag({call})
    /\ ev' = [Event("loadDevEnv.resume") EXCEPT
                 !.reload = call.reload, !.path = call.configPath,
                 !.resolved = TRUE, !.config = config, !.validated = TRUE,
                 !.outcome = "threw",
                 !.error = [kind |-> "InvalidConfig", path |-> call.configPath]]
    /\ UNCHANGED <<fs, cachedEnv, cachedFrom, nextId, lastLoaded>>

\* A wrong continuation: it returns the new environment without storing it.
LoadStore_noStore(call, config) ==
    /\ BagIn(call, inflight)
    /\ existsSync(call.configPath)
    /\ ValidConfig(config)
    /\ nextId <= MaxEnvs
    /\ inflight' = inflight (-) SetToBag({call})
    /\ nextId' = nextId + 1
    /\ ev' = [Event("loadDevEnv.resume") EXCEPT
                 !.reload = call.reload, !.path = call.configPath,
                 !.resolved = TRUE, !.config = config, !.validated = TRUE,
                 !.created = TRUE, !.outcome = "returned",
                 !.value = createDevEnvironment(config)]
    /\ UNCHANGED <<fs, cachedEnv, cachedFrom, lastLoaded>>

\* A wrong continuation: it skips the check of line 82 and builds and stores
\* an environment from whatever the module exports.
LoadStore_unvalidated(call, config) ==
    /\ BagIn(call, inflight)
    /\ existsSync(call.configPath)
    /\ nextId <= MaxEnvs
    /\ inflight' = inflight (-) SetToBag({call})
    /\ cachedEnv' = createDevEnvironment(config)
    /\ cachedFrom' = call.configPath
    /\ nextId' = nextId + 1
    /\ lastLoaded' = cachedEnv'
    /\ ev' = [Event("loadDevEnv.resume") EXCEPT
                 !.reload = call.reload, !.path = call.configPath,
                 !.resolved = TRUE, !.config = config,
                 !.created = TRUE, !.outcome = "returned", !.value = cachedEnv']
    /\ UNCHANGED fs

\* Lines 79-89: the import resolves with a valid config; the environment is
\* created, stored in the slot and returned.
LoadStore(call, config) ==
    /\ BagIn(call, inflight)
    /\ existsSync(call.configPath)
    /\ ValidConfig(config)
    /\ nextId <= MaxEnvs
    /\ inflight' = inflight (-) SetToBag({call})
    /\ cachedEnv' = createDevEnvironment(config)
    /\ cachedFrom' = call.configPath
    /\ nextId' = nextId + 1
    /\ lastLoaded' = cachedEnv'
    /\ ev' = [Event("loadDevEnv.resume") EXCEPT
                 !.reload = call.reload, !.path = call.configPath,
                 !.resolved = TRUE, !.config = config, !.validated = TRUE,
                 !.created = TRUE, !.outcome = "returned", !.value = cachedEnv']
    /\ UNCHANGED fs

\* --------------------------------------------------- getDevEnv and clear
\* A wrong accessor: it returns the slot without the null check.
getDevEnv_unchecked ==
    /\ ev' = [Event("getDevEnv") EXCEPT !.outcome = "returned", !.value = cachedEnv]
    /\ UNCHANGED <<fs, cachedEnv, cachedFrom, inflight, nextId, lastLoaded>>

\* Lines 111-119.
getDevEnv ==
    /\ ev' = IF ~ (cachedEnv # NullEnv)
             THEN [Event("getDevEnv") EXCEPT
                      !.outcome = "threw",
                      !.error = [kind |-> "NotLoaded", path |-> NoPath]]
             ELSE [Event("getDevEnv") EXCEPT !.outcome = "returned", !.value = cachedEnv]
    /\ UNCHANGED <<fs, cachedEnv, cachedFrom, inflight, nextId, lastLoaded>>

\* A wrong clear: it also cancels the loads that are in flight.
clearDevEnvCache_cancels ==
    /\ cachedEnv' = NullEnv
    /\ cachedFrom' = NoPath
    /\ lastLoaded' = NullEnv
    /\ inflight' = EmptyBag
    /\ ev' = Event("clearDevEnvCache")
    /\ UNCHANGED <<fs, nextId>>

\* A wrong clear: it refuses while a load is in flight.
clearDevEnvCache_whenIdle ==
    /\ inflight = EmptyBag
    /\ cachedEnv' = NullEnv
    /\ cachedFrom' = NoPath
    /\ lastLoaded' = NullEnv
    /\ ev' = Event("clearDevEnvCache")
    /\ UNCHANGED <<fs, inflight, nextId>>

\* Lines 124-126.
clearDevEnvCache ==
    /\ cachedEnv' = NullEnv
    /\ cachedFrom' = NoPath
    /\ lastLoaded' = NullEnv
    /\ ev' = Event("clearDevEnvCache")
    /\ UNCHANGED <<fs, inflight, nextId>>

\* ------------------------------------------------------- specifications
Next ==
    \/ \E path \in TouchedPaths : FsCreate(path)
    \/ \E path \in TouchedPaths : FsDelete(path)
    \/ \E options \in Options : loadDevEnv(options)
    \/ \E call \in BagToSet(inflight) : ImportRejected(call)
    \/ \E call \in BagToSet(inflight) : \E config \in Configs : LoadInvalid(call, config)
    \/ \E call \in BagToSet(inflight) : \E config \in Configs : LoadStore(call, config)
    \/ getDevEnv
    \/ clearDevEnvCache

Spec == Init /\ [][Next]_vars

\* The locator alone, on every placement of files on the chain.
InitFind ==
    /\ fs \in SUBSET AllPaths
    /\ cachedEnv = NullEnv
    /\ cachedFrom = NoPath
    /\ inflight = EmptyBag
    /\ nextId = 1
    /\ lastLoaded = NullEnv
    /\ ev = NoEvent

Locate(startDir) ==
    /\ LET found == findConfigFile(startDir)
       IN  ev' = [Event("findConfigFile") EXCEPT
                     !.cwd = startDir, !.walked = TRUE,
                     !.probes = found.probes, !.path = found.path,
                     !.outcome = "returned"]
    /\ UNCHANGED <<fs, cachedEnv, cachedFrom, inflight, nextId, lastLoaded>>

NextFind == \E startDir \in Dirs : Locate(startDir)

SpecFind == InitFind /\ [][NextFind]_vars

\* ------------------------------------------------------- claim helpers
\* The n-th ancestor of a directory (the 0-th is the directory itself).
RECURSIVE Up(_, _)
Up(dir, n) == IF n = 0 THEN dir ELSE Up(dirname(dir), n - 1)

\* The directory holds at least one recognized config file.
HasConfig(dir) == \E i \in 1..Len(CONFIG_FILES) : join(dir, CONFIG_FILES[i]) \in fs

\* No directory from dir up to the root holds a recognized config file.
NoConfigAbove(dir) == \A n \in 0..Depth : ~ HasConfig(Up(dir, n))

\* The name the documented order picks among the files of a directory.
PriorityPick(dir) ==
    IF join(dir, "dev.config.ts") \in fs THEN "dev.config.ts"
    ELSE IF join(dir, "dev.config.js") \in fs THEN "dev.config.js"
    ELSE IF join(dir, "dev-tools.config.ts") \in fs THEN "dev-tools.config.ts"
    ELSE "dev-tools.config.js"

\* C1: findConfigFile(startDir) returns a path in the nearest directory of
\* the chain from startDir to the root that holds a recognized file: if the
\* n-th ancestor holds one and no nearer directory does, the returned path
\* exists and lies in the n-th ancestor.
C1_NearestDirectory ==
    ev.op = "findConfigFile" =>
        \A n \in 0..Depth :
            (HasConfig(Up(ev.cwd, n)) /\ \A m \in 0..(n - 1) : ~ HasConfig(Up(ev.cwd, m)))
                => /\ ev.path # NoPath
                   /\ ev.path \in fs
                   /\ ev.path[1] = Up(ev.cwd, n)

\* C1 witness: the match is two levels above the starting directory, past two
\* directories that hold nothing.
C1_Witness ==
    /\ ev.op = "findConfigFile"
    /\ ev.path # NoPath
    /\ ev.cwd = ev.path[1] + 2
    /\ ~ HasConfig(ev.cwd)
    /\ ~ HasConfig(ev.cwd - 1)

\* C2: the returned name is the first of dev.config.ts, dev.config.js,
\* dev-tools.config.ts, dev-tools.config.js that exists in the directory of
\* the match, and no directory nearer to the start holds any recognized file,
\* whatever names a farther ancestor holds.
C2_PriorityWithinDirectory ==
    (ev.op = "findConfigFile" /\ ev.path # NoPath) =>
        /\ ev.path[2] = PriorityPick(ev.path[1])
        /\ \E n \in 0..Depth :
               /\ ev.path[1] = Up(ev.cwd, n)
               /\ \A m \in 0..(n - 1) : ~ HasConfig(Up(ev.cwd, m))

\* C2 witness: the matching directory holds dev.config.js and
\* dev-tools.config.ts and dev.config.js is returned; a farther ancestor holds
\* dev.config.ts and loses to the lower-priority name of the nearer directory.
C2_Witness ==
    /\ ev.op = "findConfigFile"
    /\ ev.path[2] = "dev.config.js"
    /\ join(ev.path[1], "dev-tools.config.ts") \in fs
    /\ ev.path[1] > 1
    /\ join(ev.path[1] - 1, "dev.config.ts") \in fs

\* C3: when no recognized file exists from the starting directory up to the
\* root, a loadDevEnv call that reaches the walk (empty slot or reload) gets
\* null from findConfigFile and throws the no-config-file error, with no
\* import started and the slot unchanged; and every call with an empty slot
\* or with reload does reach the walk.
C3_NotFound ==
    /\ (ev.op = "loadDevEnv" /\ (ev.before = NullEnv \/ ev.reload)) => ev.walked
    /\ (ev.op = "loadDevEnv" /\ ev.walked /\ NoConfigAbove(ev.cwd)) =>
           /\ ev.path = NoPath
           /\ ev.outcome = "threw"
           /\ ev.error = [kind |-> "NoConfigFound", path |-> NoPath]
           /\ ~ ev.imported
           /\ ~ ev.resolved
           /\ cachedEnv = ev.before

\* C3 witness: a reload with an environment cached and a config file only
\* below the starting directory ends with the no-config-file error.
C3_Witness ==
    /\ ev.op = "loadDevEnv"
    /\ ev.reload
    /\ ev.before # NullEnv
    /\ fs # {}
    /\ ev.error.kind = "NoConfigFound"

\* C4: a loadDevEnv call without reload made while the slot holds an
\* environment returns that environment and does no existence check, no
\* import and no validation; a call without reload that directly follows a
\* loadDevEnv call that returned a value returns the identical value without
\* walking or importing again.
C4_CachedReturn ==
    /\ (ev.op = "loadDevEnv" /\ ~ ev.reload /\ ev.before # NullEnv) =>
           /\ ev.outcome = "returned"
           /\ ev.value = ev.before
           /\ cachedEnv = ev.before
           /\ ~ ev.walked
           /\ ev.probes = <<>>
           /\ ~ ev.imported
           /\ ~ ev.validated
           /\ ~ ev.created
    /\ (ev.op = "loadDevEnv" /\ ~ ev.reload /\ ev.prevReturned) =>
           /\ ev.outcome = "returned"
           /\ ev.value = ev.prevValue
           /\ ev.probes = <<>>
           /\ ~ ev.imported

\* C4 witness: a call without reload right after a call that returned
\* returns the same environment.
C4_Witness ==
    /\ ev.op = "loadDevEnv"
    /\ ~ ev.reload
    /\ ev.prevReturned
    /\ ev.value = ev.prevValue
    /\ ev.value # NullEnv
    /\ ev.outcome = "returned"

\* C5: a loadDevEnv call with reload made while the slot holds an environment
\* does not return it: it walks, and starts the import when the walk finds a
\* file; when a reload call completes successfully createDevEnvironment was
\* called on the imported config and the slot holds the environment it made,
\* which is the value returned.
C5_Reload ==
    /\ (ev.op = "loadDevEnv" /\ ev.reload /\ ev.before # NullEnv) =>
           /\ ev.walked
           /\ ev.probes # <<>>
           /\ ev.outcome # "returned"
           /\ ~ NoConfigAbove(ev.cwd) => (ev.imported /\ ev.outcome = "suspended")
    /\ (ev.op = "loadDevEnv.resume" /\ ev.reload /\ ev.outcome = "returned") =>
           /\ ev.resolved
           /\ ev.created
           /\ ev.value.config = ev.config
           /\ cachedEnv = ev.value

\* C5 witness: a reload call completes while the slot holds an environment.
C5_Witness ==
    /\ ev.op = "loadDevEnv.resume"
    /\ ev.reload
    /\ ev.outcome = "returned"
    /\ ev.before # NullEnv
    /\ cachedEnv # ev.before

\* C6: a step in which a loadDevEnv call fails leaves the slot as it was, and
\* a getDevEnv call right after the failure returns the environment the slot
\* held (or fails with not-loaded when it was empty).
C6_FailureKeepsCache ==
    [][ /\ (ev'.op \in LoadOps /\ ev'.outcome = "threw") => cachedEnv' = cachedEnv
        /\ (ev.op \in LoadOps /\ ev.outcome = "threw" /\ ev'.op = "getDevEnv") =>
               IF ev.before = NullEnv
               THEN ev'.outcome = "threw"
               ELSE ev'.outcome = "returned" /\ ev'.value = ev.before ]_vars

\* C6 witness: a reload call fails with the invalid-config error while the
\* slot holds an environment, and the slot still holds it.
C6_Witness ==
    /\ ev.op = "loadDevEnv.resume"
    /\ ev.reload
    /\ ev.error.kind = "InvalidConfig"
    /\ ev.before # NullEnv
    /\ cachedEnv = ev.before

\* C7: getDevEnv fails with the not-loaded error when no loadDevEnv call has
\* succeeded since the start or the last clearDevEnvCache, and otherwise
\* returns the value the latest successful loadDevEnv call returned.
C7_GetAfterLoadAndClear ==
    ev.op = "getDevEnv" =>
        IF lastLoaded = NullEnv
        THEN ev.outcome = "threw" /\ ev.error.kind = "NotLoaded"
        ELSE ev.outcome = "returned" /\ ev.value = lastLoaded

\* C7 witness: getDevEnv fails with not-loaded after an environment was
\* created (so a load succeeded and a clear followed).
C7_Witness ==
    /\ ev.op = "getDevEnv"
    /\ ev.error.kind = "NotLoaded"
    /\ nextId > 1

\* C8 (as claimed): an environment in the slot is removed or replaced only by
\* clearDevEnvCache or by a loadDevEnv call invoked with reload.
C8_OnlyExplicitInvalidation ==
    (ev.before # NullEnv /\ cachedEnv # ev.before) =>
        \/ ev.op = "clearDevEnvCache"
        \/ ev.op \in LoadOps /\ ev.reload

\* C9: when the import resolves with no default export, or a default export
\* with a missing or falsy projectPrefix or a missing or falsy services, the
\* call throws the invalid-config error naming the file it imported, and
\* createDevEnvironment is not called.
C9_InvalidConfig ==
    (/\ ev.op = "loadDevEnv.resume"
     /\ ev.resolved
     /\ \/ ev.config.t = "undefined"
        \/ ev.config.projectPrefix \in {Undefined, Str("")}
        \/ ev.config.services = Undefined) =>
        /\ ev.outcome = "threw"
        /\ ev.error.kind = "InvalidConfig"
        /\ ev.error.path = ev.path
        /\ ev.path # NoPath
        /\ ~ ev.created
        /\ cachedEnv = ev.before

\* C9 witness: a default export with a projectPrefix and no services is
\* rejected.
C9_Witness ==
    /\ ev.op = "loadDevEnv.resume"
    /\ ev.config.t = "object"
    /\ ev.config.projectPrefix = Str("app")
    /\ ev.config.services = Undefined
    /\ ev.error.kind = "InvalidConfig"

\* C10 (as claimed): a config is accepted, passed to createDevEnvironment and
\* cached only if its projectPrefix is non-empty and its services mapping is
\* non-empty.
C10_NonEmptyRequired ==
    (ev.op = "loadDevEnv.resume" /\ ev.created) =>
        /\ ev.config.projectPrefix.t = "string"
        /\ ev.config.projectPrefix.s # ""
        /\ ev.config.services.t = "object"
        /\ ev.config.services.keys # {}

\* C10 (amended): a config is accepted, passed to createDevEnvironment and
\* cached exactly when its projectPrefix is a non-empty string and its
\* services field is present; an empty projectPrefix is rejected with the
\* invalid-config error, an empty services mapping is accepted.
C10_TruthyRequired ==
    (ev.op = "loadDevEnv.resume" /\ ev.resolved) =>
        LET accepted ==
                /\ ev.created
                /\ ev.outcome = "returned"
                /\ ev.value.config = ev.config
                /\ cachedEnv = ev.value
            wellFormed ==
                /\ ev.config.t = "object"
                /\ ev.config.projectPrefix.t = "string"
                /\ ev.config.projectPrefix.s # ""
                /\ ev.config.services.t = "object"
        IN  /\ accepted <=> wellFormed
            /\ ~ accepted => (~ ev.created /\ ev.error.kind = "InvalidConfig")

\* C10 witness: a config with an empty services mapping is accepted and cached.
C10_Witness ==
    /\ ev.op = "loadDevEnv.resume"
    /\ ev.created
    /\ ev.config.services = Obj({})
    /\ cachedEnv = ev.value
    /\ cachedEnv.config.services.keys = {}

\* C11: the slot is not keyed by directory or path: a loadDevEnv call without
\* reload made while the slot holds an environment returns that environment
\* whatever its starting directory is and whatever findConfigFile would
\* return from there; and the slot holds nothing or one environment with one
\* origin.
C11_SingleSlot ==
    /\ (ev.op = "loadDevEnv" /\ ~ ev.reload /\ ev.before # NullEnv) =>
           /\ ev.cwd \in Dirs
           /\ ev.outcome = "returned"
           /\ ev.value = ev.before
           /\ cachedEnv = ev.before
           /\ cachedFrom # NoPath
    /\ cachedEnv = NullEnv <=> cachedFrom = NoPath
    /\ cachedEnv # NullEnv => cachedEnv.id \in 1..(nextId - 1)

\* C11 witness: the cached environment was imported from a file that still
\* exists; a call without reload from a directory whose walk would find a
\* different file returns the cached environment.
C11_Witness ==
    /\ ev.op = "loadDevEnv"
    /\ ~ ev.reload
    /\ ev.outcome = "returned"
    /\ ev.value = ev.before
    /\ cachedFrom \in fs
    /\ findConfigFile(ev.cwd).path # NoPath
    /\ findConfigFile(ev.cwd).path # cachedFrom

\* C12: getDevEnv leaves the slot as it was whether it returns or throws;
\* clearDevEnvCache can run in every state, empties the slot and does not
\* throw; neither checks the filesystem nor imports a module.
C12_PureSlotOperations ==
    /\ ev.op = "getDevEnv" =>
           /\ cachedEnv = ev.before
           /\ ev.outcome \in {"returned", "threw"}
           /\ ~ ev.walked
           /\ ev.probes = <<>>
           /\ ~ ev.imported
           /\ ~ ev.resolved
    /\ ev.op = "clearDevEnvCache" =>
           /\ cachedEnv = NullEnv
           /\ ev.outcome # "threw"
           /\ ev.error = NoError
           /\ ~ ev.walked
           /\ ev.probes = <<>>
           /\ ~ ev.imported
           /\ ~ ev.resolved
    /\ ENABLED clearDevEnvCache

\* C12 witness: clearDevEnvCache empties a slot that held an environment
\* while a load is suspended in its import.
C12_Witness ==
    /\ ev.op = "clearDevEnvCache"
    /\ ev.before # NullEnv
    /\ cachedEnv = NullEnv
    /\ inflight # EmptyBag

\* C13: a loadDevEnv call started while the slot is empty and another call is
\* suspended in its import does not share that call's result: it walks, and
\* when the walk finds a file it starts an import of its own, so one more
\* call is in flight; and every call that completes successfully writes the
\* slot with the environment it created.
C13_NoDeduplication ==
    [][ /\ (ev'.op = "loadDevEnv" /\ cachedEnv = NullEnv /\ inflight # EmptyBag) =>
               /\ ev'.walked
               /\ ev'.probes # <<>>
               /\ ev'.outcome # "returned"
               /\ ev'.path # NoPath =>
                      /\ ev'.imported
                      /\ BagCardinality(inflight') = BagCardinality(inflight) + 1
                      /\ BagIn([reload |-> ev'.reload, configPath |-> ev'.path], inflight')
        /\ (ev'.op = "loadDevEnv.resume" /\ ev'.outcome = "returned") =>
               /\ ev'.created
               /\ cachedEnv' = ev'.value
               /\ BagCardinality(inflight') = BagCardinality(inflight) - 1 ]_vars

\* C13 witness: with the slot empty, a second call has just started its own
\* import of the file a suspended call is already importing.
C13_Witness ==
    /\ ev.op = "loadDevEnv"
    /\ ev.imported
    /\ ev.before = NullEnv
    /\ cachedEnv = NullEnv
    /\ \E call \in BagToSet(inflight) : CopiesIn(call, inflight) = 2

\* C14 (as claimed): loadDevEnv suspends during the directory-existence
\* checks, so a call that gets past the cache check is suspended before its
\* walk has ended: the step of its cache check never also finishes the walk.
C14_WalkSuspends ==
    (ev.op = "loadDevEnv" /\ ev.walked) =>
        /\ ev.outcome = "suspended"
        /\ ev.path = NoPath

\* C14 (amended): the await of the import is the only suspension point.  A
\* call that gets past the cache check finishes its whole walk in the same
\* step, on the filesystem and the slot as they are in that step, and
\* suspends exactly when it starts the import; every suspended call has its
\* walk's result; getDevEnv and clearDevEnvCache never suspend, and neither
\* does a call that returns the cached environment.
C14_SingleSuspensionPoint ==
    /\ (ev.op = "loadDevEnv" /\ ev.walked) =>
           /\ ev.probes = findConfigFile(ev.cwd).probes
           /\ ev.path = findConfigFile(ev.cwd).path
           /\ cachedEnv = ev.before
           /\ ev.imported <=> ev.path # NoPath
           /\ ev.outcome = "suspended" <=> ev.imported
    /\ (ev.op = "loadDevEnv" /\ ~ ev.walked) => ev.outcome = "returned"
    /\ \A call \in BagToSet(inflight) : call.configPath \in AllPaths
    /\ ev.op \in {"getDevEnv", "clearDevEnvCache"} => ev.outcome # "suspended"

\* C14 witness: getDevEnv runs, and fails with not-loaded, while a loadDevEnv
\* call is suspended in its import.
C14_Witness ==
    /\ ev.op = "getDevEnv"
    /\ ev.error.kind = "NotLoaded"
    /\ inflight # EmptyBag
    /\ \A call \in BagToSet(inflight) : call.configPath \in AllPaths

\* The directories from dir up to the root.
Ancestors(dir) == {Up(dir, n) : n \in 0..Depth}

\* C15: findConfigFile terminates after a bounded number of existence checks:
\* no path is tested twice, consecutive tests stay in one directory or move
\* to its parent, which is a different directory (so no directory is visited
\* twice), a non-null result is the last path tested, and null is returned
\* only from the directory that is its own parent, after every test failed.
C15_Termination ==
    ev.op = "findConfigFile" =>
        LET n == Len(ev.probes)
        IN  /\ n >= 1
            /\ n <= Len(CONFIG_FILES) * Cardinality(Ancestors(ev.cwd))
            /\ ev.probes[1][1] = ev.cwd
            /\ \A j, k \in 1..n : j # k => ev.probes[j] # ev.probes[k]
            /\ \A k \in 1..(n - 1) :
                   \/ ev.probes[k + 1][1] = ev.probes[k][1]
                   \/ /\ ev.probes[k + 1][1] = dirname(ev.probes[k][1])
                      /\ ev.probes[k + 1][1] # ev.probes[k][1]
            /\ \A k \in 1..n : ev.probes[k][1] \in Ancestors(ev.cwd)
            /\ ev.path # NoPath => ev.path = ev.probes[n]
            /\ ev.path = NoPath =>
                   /\ dirname(ev.probes[n][1]) = ev.probes[n][1]
                   /\ \A k \in 1..n : ev.probes[k] \notin fs

\* C15 witness: from the deepest directory with no matching file on the chain
\* the walk visits every directory once and returns null at the root.
C15_Witness ==
    /\ ev.op = "findConfigFile"
    /\ ev.cwd = Depth
    /\ ev.path = NoPath
    /\ Len(ev.probes) = Len(CONFIG_FILES) * Depth
    /\ {ev.probes[k][1] : k \in 1..Len(ev.probes)} = Dirs

\* C16: the walk tests only what it needs.  The k-th existence check is the
\* candidate in list order of the directory (k-1) \div 4 levels above the
\* start, so a directory is tested only after all four candidates failed in
\* every directory below it; every check but the last fails, and the last
\* one succeeds exactly when a path is returned, which is then that path: no
\* later candidate and no higher directory is tested after the match.
C16_MinimalProbing ==
    ev.op = "findConfigFile" =>
        LET n == Len(ev.probes)
            w == Len(CONFIG_FILES)
        IN  /\ n >= 1
            /\ \A k \in 1..n :
                   ev.probes[k] = join(Up(ev.cwd, (k - 1) \div w), CONFIG_FILES[((k - 1) % w) + 1])
            /\ \A k \in 1..(n - 1) : ev.probes[k] \notin fs
            /\ ev.probes[n] \in fs <=> ev.path # NoPath
            /\ ev.path # NoPath => ev.path = ev.probes[n]
            /\ \A p \in fs :
                   (ev.path # NoPath /\ p[1] < ev.path[1]) =>
                       \A k \in 1..n : ev.probes[k] # p

\* C16 witness: the start directory holds the second and a later candidate
\* and a higher directory holds a file too; the walk stops after two checks.
C16_Witness ==
    /\ ev.op = "findConfigFile"
    /\ ev.cwd = Depth
    /\ ev.path = join(Depth, CONFIG_FILES[2])
    /\ Len(ev.probes) = 2
    /\ \E i \in 3..Len(CONFIG_FILES) : join(Depth, CONFIG_FILES[i]) \in fs
    /\ \E p \in fs : p[1] < Depth

\* C17: clearing does not cancel a load in flight, and a suspended call whose
\* import resolves with a valid config stores its environment whatever
\* happened to the slot meanwhile.  The slot changes only by a clear (to
\* empty) or by a completing successful load (to the value it returns), so
\* it is empty or holds the environment of the most recently completed
\* successful load, and it is empty only if no successful load has completed
\* since the last clear or since the start.
C17_ClearDoesNotCancel ==
    /\ [](cachedEnv = lastLoaded)
    /\ [][ /\ ev'.op = "clearDevEnvCache" =>
                  /\ inflight' = inflight
                  /\ cachedEnv' = NullEnv
           /\ (ev'.op = "loadDevEnv.resume" /\ ev'.resolved /\ ValidConfig(ev'.config)) =>
                  /\ ev'.created
                  /\ ev'.outcome = "returned"
                  /\ ev'.value # NullEnv
                  /\ cachedEnv' = ev'.value
           /\ cachedEnv' # cachedEnv =>
                  \/ ev'.op = "clearDevEnvCache" /\ cachedEnv' = NullEnv
                  \/ /\ ev'.op = "loadDevEnv.resume"
                     /\ ev'.outcome = "returned"
                     /\ cachedEnv' = ev'.value
           /\ (cachedEnv # NullEnv /\ cachedEnv' = NullEnv) => ev'.op = "clearDevEnvCache"
         ]_vars

\* C17 witness: a clear emptied a non-empty slot while two calls were
\* suspended, and one of them can still complete and store.
C17_Witness ==
    /\ ev.op = "clearDevEnvCache"
    /\ ev.before # NullEnv
    /\ BagCardinality(inflight) = 2
    /\ \E call \in BagToSet(inflight) : \E config \in Configs :
           ENABLED LoadStore(call, config)

\* C18: a non-empty slot holds an environment that createDevEnvironment built
\* from a default export that passed the validation, imported from a config
\* path; the path a call imports is the one findConfigFile returned for the
\* directory the call started from, and the environment a completing call
\* stores is built from the config that call imported from that path.  A
\* rejected config never reaches the slot.
C18_SlotProvenance ==
    /\ cachedEnv # NullEnv =>
           /\ cachedEnv.id \in 1..(nextId - 1)
           /\ cachedEnv.config \in Configs
           /\ cachedEnv.config.t = "object"
           /\ ValidConfig(cachedEnv.config)
           /\ cachedFrom \in AllPaths
    /\ (ev.op = "loadDevEnv" /\ ev.imported) =>
           /\ ev.path = findConfigFile(ev.cwd).path
           /\ ev.path \in fs
           /\ BagIn([reload |-> ev.reload, configPath |-> ev.path], inflight)
    /\ (ev.op = "loadDevEnv.resume" /\ ev.created) =>
           /\ ev.resolved
           /\ ev.validated
           /\ ValidConfig(ev.config)
           /\ cachedEnv = ev.value
           /\ cachedEnv.config = ev.config
           /\ cachedFrom = ev.path
    /\ (ev.op = "loadDevEnv.resume" /\ ev.resolved /\ ~ ValidConfig(ev.config)) =>
           /\ ~ ev.created
           /\ cachedEnv = ev.before

\* C18 witness: a completing call replaced the environment in the slot by one
\* built from a different valid config, imported from a file that the walk
\* found in a directory above the deepest one.
C18_Witness ==
    /\ ev.op = "loadDevEnv.resume"
    /\ ev.created
    /\ ev.before # NullEnv
    /\ ev.before.config # cachedEnv.config
    /\ cachedEnv.config.services = Obj({"postgres"})
    /\ cachedFrom = ev.path
    /\ cachedFrom[1] < Depth

\* C19: the environment a successful loadDevEnv call returns is the value of
\* the slot in the state the call returns in, for a cache hit as for a
\* completed load: store and return are one step.  getDevEnv returns the slot
\* unchanged, and the slot differs from what it was before a step only when
\* the step was a clear or the completion of a successful load, so a later
\* getDevEnv can return another environment only after one of these.
C19_ReturnIsSlot ==
    /\ (ev.op \in LoadOps /\ ev.outcome = "returned") =>
           /\ ev.value # NullEnv
           /\ cachedEnv = ev.value
    /\ (ev.op = "getDevEnv" /\ ev.outcome = "returned") =>
           /\ ev.value = ev.before
           /\ cachedEnv = ev.before
    /\ cachedEnv # ev.before =>
           \/ ev.op = "clearDevEnvCache"
           \/ ev.op = "loadDevEnv.resume" /\ ev.outcome = "returned" /\ ev.created

\* C19 witness: a call without reload completed while the slot already held
\* another environment and a further call is still suspended; the slot holds
\* what the completing call returned.
C19_Witness ==
    /\ ev.op = "loadDevEnv.resume"
    /\ ~ ev.reload
    /\ ev.outcome = "returned"
    /\ ev.before # NullEnv
    /\ ev.value # ev.before
    /\ cachedEnv = ev.value
    /\ inflight # EmptyBag

====
